---------------------------- MODULE Spec2Model ----------------------------
(***************************************************************************)
(* A state-machine model of maps/build-map-layers.py, the one-shot script  *)
(* that clips Natural Earth and FAA shapefiles to a bounding box around an *)
(* origin and fetches OSM aerodrome and runway data through Overpass.      *)
(*                                                                         *)
(* The script is a straight line of module-level statements; pc is the     *)
(* position in it.  Everything the script cannot decide by itself (what    *)
(* the environment and the command line hold, which shapefiles exist,      *)
(* whether a request or a deletion succeeds) is drawn with \E.             *)
(*                                                                         *)
(* Values follow Python's: None, str and float are tagged records, so that *)
(* truthiness (`or`) and float() act on them as the interpreter does.      *)
(* Degrees are integers here; float rounding is outside the model.         *)
(***************************************************************************)
EXTENDS Integers, Sequences, FiniteSets, TLC

VARIABLES
    pc,               \* position in the script
    environ,          \* os.environ, restricted to the two origin variables
    args,             \* the argparse namespace
    origin_lat,       \* line 38
    origin_lon,       \* line 39
    ORIGIN_LAT, ORIGIN_LON,
    ORIGIN_LEFT, ORIGIN_TOP,
    WEST, EAST, NORTH, SOUTH,
    dir_exists,       \* whether OUTPUT_DIR exists
    outdir,           \* files of OUTPUT_DIR: name -> content
    cwd,              \* files the run wrote to the working directory
    removed,          \* names os.remove deleted from OUTPUT_DIR in this run
    clean_failed,     \* clean_output_directory caught an exception
    printed,          \* the messages of interest written to stdout
    exit_code,        \* the process's exit status, None while running
    exception,        \* the uncaught exception that ended the run, or "none"
    layer_idx,        \* index into MAP_LAYERS of the export loop
    clip_none,        \* output names whose clip returned None
    clipped_airspace, \* the clipped, reprojected airspace frame
    class_idx,        \* index into AIRSPACE of the airspace loop
    query_idx,        \* index into OVERPASS_QUERIES
    fetch_failed,     \* fetch steps whose exception was caught
    geometry,         \* argument of convert_polygons_to_lines
    converted         \* its result

vars == <<pc, environ, args, origin_lat, origin_lon, ORIGIN_LAT, ORIGIN_LON,
          ORIGIN_LEFT, ORIGIN_TOP, WEST, EAST, NORTH, SOUTH, dir_exists,
          outdir, cwd, removed, clean_failed, printed, exit_code, exception,
          layer_idx, clip_none, clipped_airspace, class_idx, query_idx,
          fetch_failed, geometry, converted>>

---------------------------------------------------------------------------
(* Bounds of the model *)

MaxCoord == 1

MaxOffset == 1

MaxFeatures == 2

MaxParts == 2

---------------------------------------------------------------------------
(* Python values *)

None == [kind |-> "None"]

Flt(v) == [kind |-> "float", v |-> v]

Str(s) == [kind |-> "str", s |-> s]

PyInt(v) == [kind |-> "int", v |-> v]

\* bool(v) for the values the script applies `or` to.
Truthy(v) ==
    CASE v.kind = "None"  -> FALSE
      [] v.kind = "str"   -> v.s # <<>>
      [] v.kind = "float" -> v.v # 0

\* `b or a`: the flag consulted before the environment.
PyOr_FlagFirst(a, b) == IF Truthy(b) THEN b ELSE a

\* `a or b`
PyOr(a, b) == IF Truthy(a) THEN a ELSE b

Digits == <<"0", "1", "2", "3", "4", "5", "6", "7", "8", "9">>

IsDigit(c) == \E i \in 1..Len(Digits) : Digits[i] = c

DigitVal(c) == (CHOOSE i \in 1..Len(Digits) : Digits[i] = c) - 1

RECURSIVE DigitsVal(_)
DigitsVal(s) ==
    IF s = <<>> THEN 0
    ELSE DigitsVal(SubSeq(s, 1, Len(s) - 1)) * 10 + DigitVal(s[Len(s)])

AllDigits(s) == s # <<>> /\ \A i \in 1..Len(s) : IsDigit(s[i])

\* float(v): a float is returned as it is; a string is parsed (an optional
\* sign, then digits, over the characters the model draws from) and raises
\* ValueError when it is no number.
PyFloat(v) ==
    CASE v.kind = "float" -> [ok |-> TRUE, v |-> v.v]
      [] v.kind = "str" ->
            IF AllDigits(v.s) THEN [ok |-> TRUE, v |-> DigitsVal(v.s)]
            ELSE IF v.s # <<>> /\ v.s[1] \in {"-", "+"} /\ AllDigits(Tail(v.s))
            THEN [ok |-> TRUE,
                  v |-> IF v.s[1] = "-" THEN 0 - DigitsVal(Tail(v.s))
                        ELSE DigitsVal(Tail(v.s))]
            ELSE [ok |-> FALSE, v |-> 0]
      [] OTHER -> [ok |-> FALSE, v |-> 0]

PyAbs(x) == IF x < 0 THEN 0 - x ELSE x

---------------------------------------------------------------------------
(* Program constants *)

DEFAULT_ORIGIN_DISTANCE == 2

ENV_LAT == "SKIES_ADSB_DEFAULT_ORIGIN_LATITUDE"

ENV_LON == "SKIES_ADSB_DEFAULT_ORIGIN_LONGITUDE"

\* A file name, split at its dots: "origins.json" is <<"origins", "json">>
\* and ".cache.json" is <<"", "cache", "json">>.
File(stem, ext) == <<stem, ext>>

MAP_LAYERS_10M == <<
    <<"data/10m_cultural/10m_cultural/ne_10m_admin_1_states_provinces.shp", "states_provinces">>,
    <<"data/10m_cultural/10m_cultural/ne_10m_airports.shp", "airports">>,
    <<"data/10m_cultural/10m_cultural/ne_10m_urban_areas.shp", "urban_areas">>,
    <<"data/10m_cultural/10m_cultural/ne_10m_admin_2_counties.shp", "counties">>,
    <<"data/10m_cultural/10m_cultural/ne_10m_roads.shp", "roads">>,
    <<"data/10m_physical/ne_10m_lakes.shp", "lakes">>,
    <<"data/10m_physical/ne_10m_rivers_lake_centerlines.shp", "rivers">> >>

MAP_LAYERS_110M == <<
    <<"data/110m_cultural/ne_110m_admin_1_states_provinces.shp", "states_provinces">>,
    <<"data/110m_physical/ne_110m_lakes.shp", "lakes">>,
    <<"data/110m_physical/ne_110m_rivers_lake_centerlines.shp", "rivers">> >>

MAP_LAYERS == IF args.build_110m_maps THEN MAP_LAYERS_110M ELSE MAP_LAYERS_10M

AIRSPACE == <<
    <<"B", "airspace_class_b">>,
    <<"C", "airspace_class_c">>,
    <<"D", "airspace_class_d">> >>

OVERPASS_QUERIES == <<
    <<"aerodrome", File("aerodrome", "geojson")>>,
    <<"runway", File("tmp_runway", "geojson")>> >>

AERODROME_ORIGINS_FILENAME == File("origins", "json")

---------------------------------------------------------------------------
(* The end of the process *)

\* An exception nobody catches: the interpreter prints the traceback and
\* exits with status 1.
Uncaught(e) ==
    /\ pc' = "exit"
    /\ exit_code' = PyInt(1)
    /\ exception' = e

---------------------------------------------------------------------------
(* Line 12: os.makedirs(OUTPUT_DIR, exist_ok=True) *)

MakeDirs ==
    /\ pc = "makedirs"
    /\ dir_exists' = TRUE
    /\ pc' = "origin"
    /\ UNCHANGED <<environ, args, origin_lat, origin_lon, ORIGIN_LAT,
                   ORIGIN_LON, ORIGIN_LEFT, ORIGIN_TOP, WEST, EAST, NORTH,
                   SOUTH, outdir, cwd, removed, clean_failed, printed,
                   exit_code, exception, layer_idx, clip_none,
                   clipped_airspace, class_idx, query_idx, fetch_failed,
                   geometry, converted>>

---------------------------------------------------------------------------
(* Lines 38-48: origin resolution *)

\* os.environ.get(name): the variable's value, or None when it is unset.
EnvGet(name) == environ[name]

\* `or` for `and` in the test of line 41.
OriginResolved_Either(lat, lon) == lat # None \/ lon # None

\* Line 41: both are not None.
OriginResolved(lat, lon) == lat # None /\ lon # None

ResolveOrigin ==
    /\ pc = "origin"
    /\ LET lat == PyOr(EnvGet(ENV_LAT), args.origin_lat)
           lon == PyOr(EnvGet(ENV_LON), args.origin_lon)
       IN  /\ origin_lat' = lat
           /\ origin_lon' = lon
           /\ IF OriginResolved(lat, lon)
              THEN IF PyFloat(lat).ok /\ PyFloat(lon).ok
                   THEN /\ ORIGIN_LAT' = Flt(PyFloat(lat).v)
                        /\ ORIGIN_LON' = Flt(PyFloat(lon).v)
                        /\ pc' = "bbox"
                        /\ UNCHANGED <<printed, exit_code, exception>>
                   ELSE /\ ORIGIN_LAT' = IF PyFloat(lat).ok
                                         THEN Flt(PyFloat(lat).v)
                                         ELSE ORIGIN_LAT
                        /\ Uncaught("ValueError")
                        /\ UNCHANGED <<ORIGIN_LON, printed>>
              ELSE /\ printed' = printed \cup {"origin not found", "usage"}
                   /\ pc' = "exit"
                   /\ exit_code' = PyInt(1)
                   /\ UNCHANGED <<ORIGIN_LAT, ORIGIN_LON, exception>>
    /\ UNCHANGED <<environ, args, ORIGIN_LEFT, ORIGIN_TOP, WEST, EAST, NORTH,
                   SOUTH, dir_exists, outdir, cwd, removed, clean_failed,
                   layer_idx, clip_none, clipped_airspace, class_idx,
                   query_idx, fetch_failed, geometry, converted>>

---------------------------------------------------------------------------
(* Lines 60-77: the offsets and the bounding box *)

\* Lines 63-68: the first value ORIGIN_LEFT is given.
OffsetLeft ==
    IF args.origin_left # None /\ args.origin_top # None
    THEN args.origin_left.v
    ELSE args.origin_distance.v

\* ORIGIN_TOP taken from args.origin_left.
OffsetTop_FromLeft ==
    IF args.origin_left # None /\ args.origin_top # None
    THEN args.origin_left.v
    ELSE args.origin_distance.v

\* Lines 63-68: the first value ORIGIN_TOP is given.
OffsetTop ==
    IF args.origin_left # None /\ args.origin_top # None
    THEN args.origin_top.v
    ELSE args.origin_distance.v

\* The offset with its sign kept.
Magnitude_Signed(x) == x

\* Lines 70-71: abs() of the offset.
Magnitude(x) == PyAbs(x)

ComputeBox ==
    /\ pc = "bbox"
    /\ LET left == Magnitude(OffsetLeft)
           top  == Magnitude(OffsetTop)
       IN  /\ ORIGIN_LEFT' = Flt(left)
           /\ ORIGIN_TOP' = Flt(top)
           /\ WEST' = Flt(ORIGIN_LON.v - left)
           /\ EAST' = Flt(ORIGIN_LON.v + left)
           /\ NORTH' = Flt(ORIGIN_LAT.v + top)
           /\ SOUTH' = Flt(ORIGIN_LAT.v - top)
    /\ pc' = "clean"
    /\ UNCHANGED <<environ, args, origin_lat, origin_lon, ORIGIN_LAT,
                   ORIGIN_LON, dir_exists, outdir, cwd, removed, clean_failed,
                   printed, exit_code, exception, layer_idx, clip_none,
                   clipped_airspace, class_idx, query_idx, fetch_failed,
                   geometry, converted>>

---------------------------------------------------------------------------
(* Files *)

\* What a file holds: who wrote it (a prior run or this one), what kind of
\* document it is, the layer or query it came from, and its features.
Content(by, kind, tag, features) ==
    [by |-> by, kind |-> kind, tag |-> tag, features |-> features]

\* open(path, 'w') followed by a complete write.
WriteFile(dir, name, content) ==
    [n \in DOMAIN dir \cup {name} |-> IF n = name THEN content ELSE dir[n]]

\* os.remove(path)
RemoveFile(dir, names) == [n \in DOMAIN dir \ names |-> dir[n]]

\* The name begins with a dot.
Hidden(name) == name[1] = ""

\* glob.glob(os.path.join(OUTPUT_DIR, '*.' + ext)): the names that end in
\* .ext, those beginning with a dot left out, as glob does for a pattern
\* that begins with `*`.
Glob(dir, ext) ==
    {n \in DOMAIN dir : Len(n) >= 2 /\ n[Len(n)] = ext /\ ~Hidden(n)}

\* gpd.read_file can parse the file: it holds a GeoJSON document.
ParsesAsGeoJSON(c) == c.kind = "FeatureCollection"

\* A file a prior run left in OUTPUT_DIR.
PriorContent(name) ==
    Content("prior",
            IF name[Len(name)] = "geojson" THEN "FeatureCollection" ELSE "json",
            "", <<>>)

---------------------------------------------------------------------------
(* Lines 118-131: clean_output_directory *)

\* The purge with the '*.json' pattern left out.
CleanOutcomes_GeoJSONOnly(dir) ==
    LET geo == Glob(dir, "geojson")
    IN  {[gone |-> geo, failed |-> FALSE]}
        \cup {[gone |-> g, failed |-> TRUE] : g \in (SUBSET geo) \ {geo}}

\* The sets of files the two loops may have removed when they end: all the
\* matches when no os.remove raises; when one raises, the except clause
\* ends both loops with the file it raised on (at least) still there.
CleanOutcomes(dir) ==
    LET geo == Glob(dir, "geojson")
        js  == Glob(dir, "json")
    IN  {[gone |-> geo \cup js, failed |-> FALSE]}
        \cup {[gone |-> g, failed |-> TRUE] : g \in (SUBSET geo) \ {geo}}
        \cup {[gone |-> geo \cup j, failed |-> TRUE] : j \in (SUBSET js) \ {js}}

clean_output_directory ==
    /\ pc = "clean"
    /\ \E o \in CleanOutcomes(outdir) :
        /\ outdir' = RemoveFile(outdir, o.gone)
        /\ removed' = removed \cup o.gone
        /\ clean_failed' = o.failed
        /\ printed' = IF o.failed THEN printed \cup {"error cleaning directory"}
                      ELSE printed
    /\ layer_idx' = 1
    /\ pc' = "layers"
    /\ UNCHANGED <<environ, args, origin_lat, origin_lon, ORIGIN_LAT,
                   ORIGIN_LON, ORIGIN_LEFT, ORIGIN_TOP, WEST, EAST, NORTH,
                   SOUTH, dir_exists, cwd, exit_code, exception, clip_none,
                   clipped_airspace, class_idx, query_idx, fetch_failed,
                   geometry, converted>>

---------------------------------------------------------------------------
(* Geometries (shapely) *)

\* A geometry: its type, its coordinates (a polygon's are those of its
\* exterior ring), a polygon's interior rings, a multi-part geometry's parts.
Geom(type, coords, interiors, geoms) ==
    [type |-> type, coords |-> coords, interiors |-> interiors, geoms |-> geoms]

Point(c) == Geom("Point", <<c>>, <<>>, <<>>)

LineString(coords) == Geom("LineString", coords, <<>>, <<>>)

Polygon(shell, holes) == Geom("Polygon", shell, holes, <<>>)

MultiPolygon(polys) == Geom("MultiPolygon", <<>>, <<>>, polys)

MultiLineString(lines) == Geom("MultiLineString", <<>>, <<>>, lines)

GeometryCollection(gs) == Geom("GeometryCollection", <<>>, <<>>, gs)

\* list(poly.exterior.coords)
ExteriorCoords(poly) == poly.coords

\* Every ring of a polygon turned into a line, as poly.boundary would give.
convert_polygons_to_boundary(g) ==
    IF g.type = "Polygon"
    THEN IF g.interiors = << >>
         THEN LineString(ExteriorCoords(g))
         ELSE MultiLineString(<<LineString(ExteriorCoords(g))>>
                  \o [i \in 1..Len(g.interiors) |-> LineString(g.interiors[i])])
    ELSE IF g.type = "MultiPolygon"
    THEN MultiLineString([i \in 1..Len(g.geoms) |->
                             LineString(ExteriorCoords(g.geoms[i]))])
    ELSE g

\* Lines 87-96
convert_polygons_to_lines(g) ==
    IF g.type \in {"Polygon", "MultiPolygon"}
    THEN IF g.type = "Polygon"
         THEN LineString(ExteriorCoords(g))
         ELSE MultiLineString([i \in 1..Len(g.geoms) |->
                                  LineString(ExteriorCoords(g.geoms[i]))])
    ELSE g

---------------------------------------------------------------------------
(* Lines 101-113: clip_shapefile_to_bounding_box *)

\* What the try block can come to: the clipped frame, FileNotFoundError, or
\* any other exception.
ClipResults == {"ok", "FileNotFoundError", "Exception"}

\* The function's return value: the frame, or None from either except clause.
ClipReturnsNone(r) == r # "ok"

\* The message either except clause prints.
ClipMessage(r) ==
    CASE r = "FileNotFoundError" -> {"shape file not found"}
      [] r = "Exception" -> {"unexpected error"}
      [] OTHER -> {}

\* Line 106 on the clipped frame: convert_polygons_to_lines applied to the
\* geometry of every feature.
ApplyConvert(frame) ==
    [i \in 1..Len(frame) |->
        [frame[i] EXCEPT !.geometry = convert_polygons_to_lines(@)]]

---------------------------------------------------------------------------
(* Lines 169-172: the Natural Earth export loop *)

ExportLayer ==
    /\ pc = "layers"
    /\ layer_idx <= Len(MAP_LAYERS)
    /\ LET map_data    == MAP_LAYERS[layer_idx][1]
           output_name == MAP_LAYERS[layer_idx][2]
       IN  \E r \in ClipResults :
            /\ printed' = printed \cup ClipMessage(r)
            /\ IF ClipReturnsNone(r)
               THEN \* clipped_map is None: None.to_file raises
                    /\ clip_none' = clip_none \cup {output_name}
                    /\ Uncaught("AttributeError")
                    /\ UNCHANGED <<outdir, layer_idx>>
               ELSE /\ outdir' = WriteFile(outdir, File(output_name, "geojson"),
                                     Content("run", "FeatureCollection",
                                             map_data, <<>>))
                    /\ layer_idx' = layer_idx + 1
                    /\ pc' = IF layer_idx = Len(MAP_LAYERS) THEN "airspace"
                             ELSE "layers"
                    /\ UNCHANGED <<clip_none, exit_code, exception>>
    /\ UNCHANGED <<environ, args, origin_lat, origin_lon, ORIGIN_LAT,
                   ORIGIN_LON, ORIGIN_LEFT, ORIGIN_TOP, WEST, EAST, NORTH,
                   SOUTH, dir_exists, cwd, removed, clean_failed,
                   clipped_airspace, class_idx, query_idx, fetch_failed,
                   geometry, converted>>

---------------------------------------------------------------------------
(* Lines 184-195: the FAA airspace layers *)

Classes == {"A", "B", "C", "D"}

\* An airspace boundary as the shapefile holds it.
AirspaceShape == Polygon(<<1, 2, 3, 1>>, <<>>)

\* What gdf.clip(bounds) may leave of Class_Airspace.shp: up to MaxFeatures
\* features, each with its CLASS attribute.
ClippedFrames ==
    UNION {[1..n -> Classes] : n \in 0..MaxFeatures}

FrameOf(classes) ==
    [i \in 1..Len(classes) |->
        [id |-> i, CLASS |-> classes[i], geometry |-> AirspaceShape]]

\* The filter letting class A through with every class.
FilterClass_Through(frame, class_name) ==
    LET Keep(f) == f.CLASS = class_name \/ f.CLASS = "A"
    IN  SelectSeq(frame, Keep)

\* Line 194: clipped_airspace[clipped_airspace["CLASS"] == class_name]
FilterClass(frame, class_name) ==
    LET Keep(f) == f.CLASS = class_name IN SelectSeq(frame, Keep)

\* Lines 190-191
ClipAirspace ==
    /\ pc = "airspace"
    /\ \E r \in ClipResults :
        /\ printed' = printed \cup ClipMessage(r)
        /\ IF ClipReturnsNone(r)
           THEN \* clipped_airspace is None: None.to_crs raises
                /\ clip_none' = clip_none \cup {"airspace"}
                /\ Uncaught("AttributeError")
                /\ UNCHANGED <<clipped_airspace, class_idx>>
           ELSE \E classes \in ClippedFrames, crs_ok \in BOOLEAN :
                IF crs_ok
                THEN /\ clipped_airspace' = ApplyConvert(FrameOf(classes))
                     /\ class_idx' = 1
                     /\ pc' = "classes"
                     /\ UNCHANGED <<clip_none, exit_code, exception>>
                ELSE \* to_crs raises on a frame without a CRS
                     /\ classes = <<>>
                     /\ Uncaught("ValueError")
                     /\ UNCHANGED <<clip_none, clipped_airspace, class_idx>>
    /\ UNCHANGED <<environ, args, origin_lat, origin_lon, ORIGIN_LAT,
                   ORIGIN_LON, ORIGIN_LEFT, ORIGIN_TOP, WEST, EAST, NORTH,
                   SOUTH, dir_exists, outdir, cwd, removed, clean_failed,
                   layer_idx, query_idx, fetch_failed, geometry, converted>>

\* Lines 192-195
ExportAirspaceClass ==
    /\ pc = "classes"
    /\ class_idx <= Len(AIRSPACE)
    /\ LET class_name  == AIRSPACE[class_idx][1]
           output_name == AIRSPACE[class_idx][2]
           airspace    == FilterClass(clipped_airspace, class_name)
       IN  outdir' = WriteFile(outdir, File(output_name, "geojson"),
                         Content("run", "FeatureCollection", class_name,
                                 airspace))
    /\ class_idx' = class_idx + 1
    /\ query_idx' = 1
    /\ pc' = IF class_idx = Len(AIRSPACE) THEN "overpass" ELSE "classes"
    /\ UNCHANGED <<environ, args, origin_lat, origin_lon, ORIGIN_LAT,
                   ORIGIN_LON, ORIGIN_LEFT, ORIGIN_TOP, WEST, EAST, NORTH,
                   SOUTH, dir_exists, cwd, removed, clean_failed, printed,
                   exit_code, exception, layer_idx, clip_none,
                   clipped_airspace, fetch_failed, geometry, converted>>

---------------------------------------------------------------------------
(* Lines 206-242: the Overpass geometry queries *)

\* What the try block of generate_aerodrome_runway_geometry can come to:
\* the request, the parse of its response and the conversion all come
\* before the file is opened, so a failure leaves no file.
FetchResults == {"ok", "request failed", "parse failed"}

EmptyObject == Content("run", "empty_object", "", <<>>)

\* Lines 206-227
generate_aerodrome_runway_geometry(osm_value, output_file_name, r) ==
    IF r = "ok"
    THEN /\ outdir' = WriteFile(outdir, output_file_name,
                          Content("run", "FeatureCollection", osm_value, <<>>))
         /\ UNCHANGED <<printed, fetch_failed>>
    ELSE /\ printed' = printed \cup {"unexpected error"}
         /\ fetch_failed' = fetch_failed \cup {osm_value}
         /\ UNCHANGED outdir

\* Lines 235-242
OverpassQuery ==
    /\ pc = "overpass"
    /\ query_idx <= Len(OVERPASS_QUERIES)
    /\ LET osm_value        == OVERPASS_QUERIES[query_idx][1]
           output_file_name == OVERPASS_QUERIES[query_idx][2]
       IN  IF ~args.skip_aerodromes
           THEN /\ \E r \in FetchResults :
                     generate_aerodrome_runway_geometry(osm_value,
                                                        output_file_name, r)
                /\ UNCHANGED cwd
           ELSE \* open(output_file_name, 'w'): the name without
                \* OUTPUT_DIR, so the file lands in the working directory
                /\ cwd' = WriteFile(cwd, output_file_name, EmptyObject)
                /\ UNCHANGED <<outdir, printed, fetch_failed>>
    /\ query_idx' = query_idx + 1
    /\ pc' = IF query_idx = Len(OVERPASS_QUERIES) THEN "merge" ELSE "overpass"
    /\ UNCHANGED <<environ, args, origin_lat, origin_lon, ORIGIN_LAT,
                   ORIGIN_LON, ORIGIN_LEFT, ORIGIN_TOP, WEST, EAST, NORTH,
                   SOUTH, dir_exists, removed, clean_failed, exit_code,
                   exception, layer_idx, clip_none, clipped_airspace,
                   class_idx, geometry, converted>>

---------------------------------------------------------------------------
(* Lines 245-258: merge aerodromes and runways *)

tmp_runway_geojson == OVERPASS_QUERIES[2][2]

\* gpd.read_file(path) returns a frame: the file is there and parses.
Readable(dir, name) == name \in DOMAIN dir /\ ParsesAsGeoJSON(dir[name])

\* Lines 245-252
MergeAerodromesRunways ==
    /\ pc = "merge"
    /\ IF /\ Readable(outdir, OVERPASS_QUERIES[1][2])
          /\ Readable(outdir, tmp_runway_geojson)
       THEN /\ outdir' = WriteFile(outdir, File("runway", "geojson"),
                             Content("run", "FeatureCollection", "sjoin", <<>>))
            /\ pc' = "rmtmp"
            /\ UNCHANGED <<exit_code, exception>>
       ELSE \* gpd.read_file raises on a missing or unparsable file
            /\ Uncaught("DataSourceError")
            /\ UNCHANGED outdir
    /\ UNCHANGED <<environ, args, origin_lat, origin_lon, ORIGIN_LAT,
                   ORIGIN_LON, ORIGIN_LEFT, ORIGIN_TOP, WEST, EAST, NORTH,
                   SOUTH, dir_exists, cwd, removed, clean_failed, printed,
                   layer_idx, clip_none, clipped_airspace, class_idx,
                   query_idx, fetch_failed, geometry, converted>>

\* Lines 254-258
RemoveTmpRunway ==
    /\ pc = "rmtmp"
    /\ \E ok \in BOOLEAN :
        IF ok
        THEN /\ outdir' = RemoveFile(outdir, {tmp_runway_geojson})
             /\ removed' = removed \cup {tmp_runway_geojson}
             /\ UNCHANGED printed
        ELSE /\ printed' = printed \cup {"error cleaning directory"}
             /\ UNCHANGED <<outdir, removed>>
    /\ pc' = "origins"
    /\ UNCHANGED <<environ, args, origin_lat, origin_lon, ORIGIN_LAT,
                   ORIGIN_LON, ORIGIN_LEFT, ORIGIN_TOP, WEST, EAST, NORTH,
                   SOUTH, dir_exists, cwd, clean_failed, exit_code, exception,
                   layer_idx, clip_none, clipped_airspace, class_idx,
                   query_idx, fetch_failed, geometry, converted>>

---------------------------------------------------------------------------
(* Lines 270-299: aerodrome origins, and the end of the script *)

\* Lines 272-289: here the file is opened before result.json() is
\* evaluated, so a response that does not parse leaves an empty file.
get_aerodrome_origins_as_lat_lon(r) ==
    CASE r = "ok" ->
            /\ outdir' = WriteFile(outdir, AERODROME_ORIGINS_FILENAME,
                             Content("run", "json", "origins", <<>>))
            /\ UNCHANGED <<printed, fetch_failed>>
      [] r = "request failed" ->
            /\ printed' = printed \cup {"unexpected error"}
            /\ fetch_failed' = fetch_failed \cup {"origins"}
            /\ UNCHANGED outdir
      [] r = "parse failed" ->
            /\ outdir' = WriteFile(outdir, AERODROME_ORIGINS_FILENAME,
                             Content("run", "empty_file", "", <<>>))
            /\ printed' = printed \cup {"unexpected error"}
            /\ fetch_failed' = fetch_failed \cup {"origins"}

\* Lines 291-299
FetchOrigins ==
    /\ pc = "origins"
    /\ IF ~args.skip_aerodromes
       THEN \E r \in FetchResults : get_aerodrome_origins_as_lat_lon(r)
       ELSE /\ outdir' = WriteFile(outdir, AERODROME_ORIGINS_FILENAME,
                             EmptyObject)
            /\ UNCHANGED <<printed, fetch_failed>>
    /\ pc' = "done"
    /\ exit_code' = PyInt(0)
    /\ UNCHANGED <<environ, args, origin_lat, origin_lon, ORIGIN_LAT,
                   ORIGIN_LON, ORIGIN_LEFT, ORIGIN_TOP, WEST, EAST, NORTH,
                   SOUTH, dir_exists, cwd, removed, clean_failed, exception,
                   layer_idx, clip_none, clipped_airspace, class_idx,
                   query_idx, geometry, converted>>

---------------------------------------------------------------------------
(* The pipeline *)

\* Names a prior run, or anything else, may have left in OUTPUT_DIR.
PriorNames ==
    { File("states_provinces", "geojson"),
      File("origins", "json"),
      <<"", "cache", "json">> }

NoGeometry == Point(0)

\* The state before the first statement, but for the inputs.
InitRest ==
    /\ pc = "makedirs"
    /\ origin_lat = None /\ origin_lon = None
    /\ ORIGIN_LAT = None /\ ORIGIN_LON = None
    /\ ORIGIN_LEFT = None /\ ORIGIN_TOP = None
    /\ WEST = None /\ EAST = None /\ NORTH = None /\ SOUTH = None
    /\ cwd = << >>
    /\ removed = {}
    /\ clean_failed = FALSE
    /\ printed = {}
    /\ exit_code = None
    /\ exception = "none"
    /\ layer_idx = 0
    /\ clip_none = {}
    /\ clipped_airspace = << >>
    /\ class_idx = 0
    /\ query_idx = 0
    /\ fetch_failed = {}
    /\ geometry = NoGeometry
    /\ converted = NoGeometry

Args(lat, lon, distance, left, top, b110, skip) ==
    [origin_lat |-> lat, origin_lon |-> lon, origin_distance |-> distance,
     origin_left |-> left, origin_top |-> top, build_110m_maps |-> b110,
     skip_aerodromes |-> skip]

Environ(lat, lon) == (ENV_LAT :> lat) @@ (ENV_LON :> lon)

Init ==
    /\ InitRest
    /\ \E lat, lon \in {None, Str(<<>>), Str(<<"2">>)} :
          environ = Environ(lat, lon)
    /\ \E lat, lon \in {None, Flt(1)}, b110, skip \in BOOLEAN :
          args = Args(lat, lon, Flt(DEFAULT_ORIGIN_DISTANCE), None, None,
                      b110, skip)
    /\ dir_exists \in BOOLEAN
    /\ \E prior \in SUBSET PriorNames :
          /\ ~dir_exists => prior = {}
          /\ outdir = [n \in prior |-> PriorContent(n)]

Next ==
    \/ MakeDirs
    \/ ResolveOrigin
    \/ ComputeBox
    \/ clean_output_directory
    \/ ExportLayer
    \/ ClipAirspace
    \/ ExportAirspaceClass
    \/ OverpassQuery
    \/ MergeAerodromesRunways
    \/ RemoveTmpRunway
    \/ FetchOrigins

Spec == Init /\ [][Next]_vars

---------------------------------------------------------------------------
(* The resolver alone, over wider inputs: lines 38-77 *)

\* Values of the two environment variables: unset, empty, numbers, garbage.
EnvValues ==
    {None, Str(<<>>), Str(<<"0">>), Str(<<"-", "2">>), Str(<<"x">>)}

Coords == {Flt(n) : n \in (0 - MaxCoord)..MaxCoord}

Offsets == {Flt(n) : n \in (0 - MaxOffset)..MaxOffset}

InitResolver ==
    /\ InitRest
    /\ \E lat, lon \in EnvValues : environ = Environ(lat, lon)
    /\ \E lat, lon \in {None} \cup Coords,
          distance \in {Flt(DEFAULT_ORIGIN_DISTANCE)} \cup Offsets,
          left, top \in {None} \cup Offsets :
          args = Args(lat, lon, distance, left, top, FALSE, FALSE)
    /\ dir_exists = FALSE
    /\ outdir = << >>

NextResolver ==
    \/ MakeDirs
    \/ ResolveOrigin
    \/ ComputeBox

SpecResolver == InitResolver /\ [][NextResolver]_vars

---------------------------------------------------------------------------
(* convert_polygons_to_lines alone, over a family of geometries *)

Vertices == {1, 2, 3}

\* Closed rings over three distinct vertices.
Rings ==
    {<<a, b, c, a>> : a, b, c \in Vertices} \
        {r \in {<<a, b, c, a>> : a, b, c \in Vertices} :
            r[1] = r[2] \/ r[2] = r[3] \/ r[1] = r[3]}

SeqsUpTo(S, n) == UNION {[1..k -> S] : k \in 0..n}

Polygons ==
    {Polygon(<<>>, <<>>)}
    \cup {Polygon(r, <<>>) : r \in Rings}
    \cup {Polygon(r, <<h>>) : r, h \in Rings}

Lines == {LineString(<<a, b>>) : a, b \in Vertices}

Mixed ==
    {Point(1), LineString(<<1, 2>>), Polygon(<<1, 2, 3, 1>>, <<>>),
     Polygon(<<1, 2, 3, 1>>, << <<3, 2, 1, 3>> >>)}

Geometries ==
    {Point(v) : v \in Vertices}
    \cup Lines
    \cup Polygons
    \cup {MultiPolygon(ps) : ps \in SeqsUpTo(Polygons, MaxParts)}
    \cup {MultiLineString(ls) : ls \in SeqsUpTo(Lines, MaxParts)}
    \cup {GeometryCollection(gs) : gs \in SeqsUpTo(Mixed, MaxParts)}

InitConvert ==
    /\ pc = "convert"
    /\ origin_lat = None /\ origin_lon = None
    /\ ORIGIN_LAT = None /\ ORIGIN_LON = None
    /\ ORIGIN_LEFT = None /\ ORIGIN_TOP = None
    /\ WEST = None /\ EAST = None /\ NORTH = None /\ SOUTH = None
    /\ environ = Environ(None, None)
    /\ args = Args(None, None, Flt(DEFAULT_ORIGIN_DISTANCE), None, None,
                   FALSE, FALSE)
    /\ dir_exists = TRUE
    /\ outdir = << >> /\ cwd = << >>
    /\ removed = {} /\ clean_failed = FALSE /\ printed = {}
    /\ exit_code = None /\ exception = "none"
    /\ layer_idx = 0 /\ clip_none = {} /\ clipped_airspace = << >>
    /\ class_idx = 0 /\ query_idx = 0 /\ fetch_failed = {}
    /\ geometry \in Geometries
    /\ converted = NoGeometry

\* One call of the function, as line 106 makes for every geometry.
Convert ==
    /\ pc = "convert"
    /\ converted' = convert_polygons_to_lines(geometry)
    /\ pc' = "converted"
    /\ UNCHANGED <<environ, args, origin_lat, origin_lon, ORIGIN_LAT,
                   ORIGIN_LON, ORIGIN_LEFT, ORIGIN_TOP, WEST, EAST, NORTH,
                   SOUTH, dir_exists, outdir, cwd, removed, clean_failed,
                   printed, exit_code, exception, layer_idx, clip_none,
                   clipped_airspace, class_idx, query_idx, fetch_failed,
                   geometry>>

NextConvert == Convert

SpecConvert == InitConvert /\ [][NextConvert]_vars

---------------------------------------------------------------------------
(* Properties *)

Range(q) == {q[i] : i \in 1..Len(q)}

Exited(code) == pc = "exit" /\ exit_code = PyInt(code)

\* The purge looks for these two extensions.
IsLayerFile(n) == Len(n) >= 2 /\ n[Len(n)] \in {"geojson", "json"}

PriorFiles(dir) == {n \in DOMAIN dir : dir[n].by = "prior"}

\* C1: when a layer's shapefile is missing or its clip hits any other error,
\* the layer is skipped, no exception propagates out of the export step and
\* the run does not end with a failure status.
C1_SkippedLayerDoesNotAbort ==
    clip_none # {} => exception = "none" /\ exit_code # PyInt(1)

\* C2: with --skip-aerodromes, once the Overpass loop is over, each of its
\* two files is in the output directory, holding an empty JSON object, where
\* the merge step reads it.
C2_SkipWritesInPlace ==
    (args.skip_aerodromes /\ query_idx > Len(OVERPASS_QUERIES)) =>
        \A q \in 1..Len(OVERPASS_QUERIES) :
            /\ OVERPASS_QUERIES[q][2] \in DOMAIN outdir
            /\ outdir[OVERPASS_QUERIES[q][2]] = EmptyObject

\* C3: when a fetch step's request or parse fails, the failure is caught and
\* logged and the run goes on through every later step: no exception ends
\* it and it does not exit with a failure status.
C3_FetchFailureDoesNotAbort ==
    fetch_failed # {} =>
        /\ "unexpected error" \in printed
        /\ exception = "none"
        /\ exit_code # PyInt(1)

\* An origin coordinate the run has no value for: the environment variable
\* is unset or empty and the flag was not given.
C4_Missing(env_name, flag) ==
    environ[env_name] \in {None, Str(<<>>)} /\ flag = None

C4_Unresolved ==
    \/ C4_Missing(ENV_LAT, args.origin_lat)
    \/ C4_Missing(ENV_LON, args.origin_lon)

\* C4: when the origin latitude or longitude cannot be resolved, the run
\* prints the usage text and exits with status 1, having purged and written
\* nothing; when both are resolved the usage exit is not taken.
C4_UnresolvedOriginIsFatal ==
    pc \notin {"makedirs", "origin"} =>
        IF C4_Unresolved
        THEN /\ Exited(1)
             /\ exception = "none"
             /\ "usage" \in printed
             /\ removed = {}
             /\ PriorFiles(outdir) = DOMAIN outdir
             /\ cwd = << >>
        ELSE /\ "usage" \notin printed
             /\ ~(Exited(1) /\ exception = "none")

C4_Witness ==
    /\ Exited(1)
    /\ C4_Missing(ENV_LON, args.origin_lon)
    /\ ~C4_Missing(ENV_LAT, args.origin_lat)
    /\ environ[ENV_LON] = Str(<<>>)
    /\ DOMAIN outdir # {}

\* clean_output_directory has run.
PurgeDone == layer_idx >= 1

C6_BoxStrict ==
    WEST # None => (WEST.v < EAST.v /\ SOUTH.v < NORTH.v)

\* C6, amended: every box has west <= east and south <= north, the offsets
\* being magnitudes; west < east exactly when the horizontal offset is not
\* zero and south < north exactly when the vertical offset is not zero.
C6_BoxOrdered ==
    WEST # None =>
        /\ ORIGIN_LEFT.v >= 0 /\ ORIGIN_TOP.v >= 0
        /\ WEST.v <= EAST.v /\ SOUTH.v <= NORTH.v
        /\ (WEST.v < EAST.v) <=> (ORIGIN_LEFT.v # 0)
        /\ (SOUTH.v < NORTH.v) <=> (ORIGIN_TOP.v # 0)
        /\ EAST.v - WEST.v = 2 * ORIGIN_LEFT.v
        /\ NORTH.v - SOUTH.v = 2 * ORIGIN_TOP.v

C6_Witness ==
    /\ WEST # None
    /\ args.origin_left # None /\ args.origin_top # None
    /\ args.origin_left.v < 0 /\ args.origin_top.v = 0
    /\ WEST.v < EAST.v /\ SOUTH.v = NORTH.v

C7_PairGiven == args.origin_left # None /\ args.origin_top # None

C7_Size(x) == IF x.v >= 0 THEN x.v ELSE 0 - x.v

\* C7: with --origin-distance d > 0 and no complete left/top pair the box is
\* (lon-d, lat+d, lon+d, lat-d) with west < east and south < north; a
\* left/top pair replaces d only when both are given, west/east then using
\* |left| and north/south |top|; an offset and its negation give one box.
C7_BoxFormula ==
    WEST # None =>
        LET l == IF C7_PairGiven THEN C7_Size(args.origin_left)
                 ELSE C7_Size(args.origin_distance)
            t == IF C7_PairGiven THEN C7_Size(args.origin_top)
                 ELSE C7_Size(args.origin_distance)
        IN  /\ WEST.v = ORIGIN_LON.v - l /\ EAST.v = ORIGIN_LON.v + l
            /\ NORTH.v = ORIGIN_LAT.v + t /\ SOUTH.v = ORIGIN_LAT.v - t
            /\ (~C7_PairGiven /\ args.origin_distance.v > 0) =>
                  /\ WEST.v = ORIGIN_LON.v - args.origin_distance.v
                  /\ EAST.v = ORIGIN_LON.v + args.origin_distance.v
                  /\ NORTH.v = ORIGIN_LAT.v + args.origin_distance.v
                  /\ SOUTH.v = ORIGIN_LAT.v - args.origin_distance.v
                  /\ WEST.v < EAST.v /\ SOUTH.v < NORTH.v

C7_Witness ==
    /\ WEST # None
    /\ args.origin_left # None /\ args.origin_top = None
    /\ args.origin_left.v # args.origin_distance.v
    /\ args.origin_distance.v > 0
    /\ EAST.v = ORIGIN_LON.v + args.origin_distance.v

\* The variable is set in the environment (to anything, the empty string
\* included).
C8_Set(v) == v # None

\* The number a string of EnvValues denotes.
C8_Denotes(v) ==
    CASE v = Str(<<"0">>) -> 0
      [] v = Str(<<"-", "2">>) -> 0 - 2
      [] v = Str(<<"2">>) -> 2

C8_Coerced(used, COORD) ==
    /\ COORD.kind = "float"
    /\ used.kind = "float" => COORD = used
    /\ used.kind = "str" => COORD.v = C8_Denotes(used)

\* C8 as stated: for each coordinate, the environment variable's value is
\* used when both it and the flag are present, the one present is used when
\* only one is, and the value used is a float when the box is computed.
C8_EnvWhenPresent ==
    pc \notin {"makedirs", "origin"} =>
        /\ C8_Set(environ[ENV_LAT]) => origin_lat = environ[ENV_LAT]
        /\ C8_Set(environ[ENV_LON]) => origin_lon = environ[ENV_LON]
        /\ ~C8_Set(environ[ENV_LAT]) => origin_lat = args.origin_lat
        /\ ~C8_Set(environ[ENV_LON]) => origin_lon = args.origin_lon
        /\ WEST # None => /\ C8_Coerced(origin_lat, ORIGIN_LAT)
                          /\ C8_Coerced(origin_lon, ORIGIN_LON)

C8_NonEmpty(v) == v \notin {None, Str(<<>>)}

\* C8, amended: for each coordinate, the environment variable's value is
\* used when it is set to a non-empty string, whatever the flag; when it is
\* unset or empty the flag's value is used; and the value used has been
\* coerced to a float when the box is computed.
C8_EnvWhenNonEmpty ==
    pc \notin {"makedirs", "origin"} =>
        /\ C8_NonEmpty(environ[ENV_LAT]) => origin_lat = environ[ENV_LAT]
        /\ C8_NonEmpty(environ[ENV_LON]) => origin_lon = environ[ENV_LON]
        /\ ~C8_NonEmpty(environ[ENV_LAT]) => origin_lat = args.origin_lat
        /\ ~C8_NonEmpty(environ[ENV_LON]) => origin_lon = args.origin_lon
        /\ WEST # None => /\ C8_Coerced(origin_lat, ORIGIN_LAT)
                          /\ C8_Coerced(origin_lon, ORIGIN_LON)

C8_Witness ==
    /\ WEST # None
    /\ environ[ENV_LAT] = Str(<<"-", "2">>)
    /\ args.origin_lat = Flt(1)
    /\ ORIGIN_LAT = Flt(0 - 2)
    /\ environ[ENV_LON] = Str(<<>>)
    /\ args.origin_lon = Flt(1)
    /\ ORIGIN_LON = Flt(1)

C9_File(k) == File(AIRSPACE[k][2], "geojson")

C9_Features(k) == Range(outdir[C9_File(k)].features)

\* C9: each airspace file the loop has written is in the output directory
\* (empty or not) and holds exactly the clipped features whose CLASS is the
\* file's class, each once; no feature is in two files, and a feature of
\* another class is in none.
C9_ClassPartition ==
    \A k \in 1..Len(AIRSPACE) :
        k < class_idx =>
            /\ C9_File(k) \in DOMAIN outdir
            /\ outdir[C9_File(k)].by = "run"
            /\ C9_Features(k) =
                  {f \in Range(clipped_airspace) : f.CLASS = AIRSPACE[k][1]}
            /\ Cardinality(C9_Features(k)) = Len(outdir[C9_File(k)].features)
            /\ \A f \in C9_Features(k) : f.CLASS \in {"B", "C", "D"}
            /\ \A j \in 1..Len(AIRSPACE) :
                  (j < class_idx /\ j # k) =>
                      C9_Features(k) \cap C9_Features(j) = {}

C9_Witness ==
    /\ class_idx > Len(AIRSPACE)
    /\ \E f \in Range(clipped_airspace) : f.CLASS = "A"
    /\ \E f \in Range(clipped_airspace) : f.CLASS = "B"
    /\ C9_Features(1) # {}
    /\ outdir[C9_File(3)].features = << >>

C10_IsLineOf(line, poly) ==
    /\ line.type = "LineString"
    /\ line.coords = poly.coords
    /\ line.interiors = << >>
    /\ line.geoms = << >>

\* C10: a polygon becomes the line of its exterior vertices; a multi-polygon
\* becomes a multi-line with one such line per member, in order; no interior
\* ring is in the result; any other geometry is returned unchanged.
C10_ConvertResult ==
    pc = "converted" =>
        CASE geometry.type = "Polygon" -> C10_IsLineOf(converted, geometry)
          [] geometry.type = "MultiPolygon" ->
                /\ converted.type = "MultiLineString"
                /\ converted.coords = << >>
                /\ converted.interiors = << >>
                /\ Len(converted.geoms) = Len(geometry.geoms)
                /\ \A i \in 1..Len(geometry.geoms) :
                      C10_IsLineOf(converted.geoms[i], geometry.geoms[i])
          [] OTHER -> converted = geometry

C10_Witness ==
    /\ pc = "converted"
    /\ geometry.type = "MultiPolygon"
    /\ Len(geometry.geoms) = 2
    /\ geometry.geoms[1].interiors # << >>
    /\ geometry.geoms[1].coords # geometry.geoms[2].coords
    /\ geometry.geoms[1].interiors[1] # geometry.geoms[1].coords
    /\ converted.geoms[2].coords = geometry.geoms[2].coords

=============================================================================
